---- MODULE Spec2Model ----
(***************************************************************************)
(* Model of src/test_project/src/api.js: the in-memory UserService store   *)
(* (a Map of user records plus the nextId counter) and the sliding-window  *)
(* rateLimiter middleware.  Records are JavaScript objects; they are       *)
(* modelled as functions from attribute names to values, and the object    *)
(* spread {...a, ...b} as Spread(a, b).  The Map keeps insertion order and *)
(* is modelled as a sequence of [key, val] entries.                        *)
(***************************************************************************)
EXTENDS Integers, Sequences, FiniteSets, TLC

\* ------------------------------------------------------------------ bounds
MaxCreates == 2
StartClock == 999
MaxTicks == 1
MaxLimiterTicks == 3
MaxAdmits == 3
MaxWindow == 2
MaxMax == 2
MaxNameInput == 52
MaxEmailInput == 5
MaxPasswordInput == 9

\* ------------------------------------------------------- program constants
MsPerSec == 1000
DefaultWindowMs == 900000
DefaultMax == 100
MinUsernameLength == 3
MaxUsernameLength == 50
MinPasswordLength == 8

MaxClock == StartClock + MaxTicks
LimiterMaxClock == StartClock + MaxLimiterTicks

\* The values of req.ip tried.
ClientKeys == {"ip1", "ip2"}

\* Program state:
\*   users, nextId      UserService.users (a Map, in insertion order) and
\*                      UserService.nextId
\*   requests           the Map of one rateLimiter instance, req.ip -> instants
\*   windowMs, max      the parameters that instance was built with
\*   clock              the system clock in milliseconds (Date.now, new Date)
\*   pending            the responses of the async APIServer handlers that
\*                      are suspended at their await, in the order in which
\*                      their continuations will run
\*   draining           whether those continuations have begun to run (the
\*                      synchronous part of the turn is over)
\* History, written by the actions and read only by the properties:
\*   last               the last call, its arguments and its outcome
\*   created            per createUser call, in call order, the id and the
\*                      createdAt of the record it returned
\*   owner              per stored key, the createUser call whose record it holds
\*   alive              the createUser calls with no later successful
\*                      deleteUser of the id they returned
\*   admitted           per client key, the instants of its admitted requests
VARIABLES users, nextId, clock, requests, windowMs, max,
          pending, draining,
          last, created, owner, alive, admitted

vars == <<users, nextId, clock, requests, windowMs, max,
          pending, draining,
          last, created, owner, alive, admitted>>

storeVars == <<users, nextId, created, owner, alive>>
limiterVars == <<requests, windowMs, max, admitted>>
serverVars == <<pending, draining>>

\* ------------------------------------------------------------- timestamps
\* Date.prototype.toISOString: "YYYY-MM-DDTHH:mm:ss.sssZ".  The string is
\* modelled by its seconds part and its milliseconds part; strings of this
\* shape order lexicographically, seconds first.
toISOString_MsOnly(t) == <<0, t % MsPerSec>>

toISOString(t) == <<t \div MsPerSec, t % MsPerSec>>

IsoLeq(a, b) == a[1] < b[1] \/ (a[1] = b[1] /\ a[2] <= b[2])
IsoLess(a, b) == a[1] < b[1] \/ (a[1] = b[1] /\ a[2] < b[2])

\* ---------------------------------------------------------- field maps
SuppliedIds == {2}
SuppliedTimes == {toISOString(0)}

NoData == <<>>

\* The request bodies tried: the empty body and each attribute alone, the
\* store-owned id, createdAt and updatedAt included.
FieldMaps ==
    {NoData, [email |-> "x"], [email |-> "y"]}
    \cup {[id |-> i] : i \in SuppliedIds}
    \cup {[createdAt |-> t] : t \in SuppliedTimes}
    \cup {[updatedAt |-> t] : t \in SuppliedTimes}

\* The ids a lookup is tried with: 0, every id the counter can issue, and
\* one beyond the counter.
LookupIds == 0..(MaxCreates + 1)

\* ------------------------------------------------------------- JS objects
\* {...a, ...b}: the keys of both, b's value where both have the key.
Spread(a, b) ==
    [k \in (DOMAIN a) \cup (DOMAIN b) |-> IF k \in DOMAIN b THEN b[k] ELSE a[k]]

\* ----------------------------------------------------------------- JS Map
MapHas(m, k) == \E i \in 1..Len(m) : m[i].key = k

MapGet_First(m, k) == m[1].val

MapGet(m, k) == m[CHOOSE i \in 1..Len(m) : m[i].key = k].val

MapSet(m, k, v) ==
    IF MapHas(m, k)
    THEN [i \in 1..Len(m) |-> IF m[i].key = k THEN [key |-> k, val |-> v] ELSE m[i]]
    ELSE Append(m, [key |-> k, val |-> v])

MapDelete(m, k) == SelectSeq(m, LAMBDA e : e.key # k)

MapValues(m) == [i \in 1..Len(m) |-> m[i].val]

MapKeys(m) == {m[i].key : i \in 1..Len(m)}

\* ------------------------------------------------------------ UserService
\* createUser's object literal; the two `new Date()` reads are t1 and t2.
NewUser(id, userData, t1, t2) ==
    Spread(Spread([id |-> id], userData),
           [createdAt |-> toISOString(t1), updatedAt |-> toISOString(t2)])

UpdatedUser_SuppliedLast(user, userData, now) ==
    Spread(Spread(user, [updatedAt |-> toISOString(now)]), userData)

UpdatedUser_ExistingWins(user, userData, now) ==
    Spread(Spread(userData, user), [updatedAt |-> toISOString(now)])

\* updateUser's object literal.
UpdatedUser(user, userData, now) ==
    Spread(Spread(user, userData), [updatedAt |-> toISOString(now)])

UpdateThrows_Always(m, id) == TRUE

\* `if (!user) throw` of updateUser, `if (!this.users.has(id)) throw` of
\* deleteUser.
UpdateThrows(m, id) == ~MapHas(m, id)

DeleteThrows_Never(m, id) == FALSE

DeleteThrows(m, id) == ~MapHas(m, id)

\* What the last call was and how it ended: ret holds the value it returned
\* (no element for undefined), err the message of the Error it threw.
Outcome(op, id, key, data, ok, ret, err) ==
    [op |-> op, id |-> id, key |-> key, data |-> data, ok |-> ok, ret |-> ret,
     err |-> err]

Result(op, id, data, ok, ret) ==
    Outcome(op, id, "", data, ok, ret, IF ok THEN "" ELSE "User not found")

Init ==
    /\ users = <<>>
    /\ nextId = 1
    /\ clock = StartClock
    /\ requests = <<>>
    /\ windowMs = DefaultWindowMs
    /\ max = DefaultMax
    /\ last = Result("init", 0, NoData, TRUE, <<>>)
    /\ created = <<>>
    /\ owner = <<>>
    /\ alive = {}
    /\ admitted = [k \in ClientKeys |-> <<>>]
    /\ pending = <<>>
    /\ draining = FALSE

\* The system clock advances by a millisecond.
TickTo(limit) ==
    /\ clock < limit
    /\ clock' = clock + 1
    /\ last' = Result("tick", 0, NoData, TRUE, <<>>)
    /\ UNCHANGED <<storeVars, limiterVars, serverVars>>

Tick == TickTo(MaxClock)

\* static async createUser(userData), the field map drawn from bodies and
\* at most limit calls made.
createUserWith(bodies, limit) ==
    \E userData \in bodies, t2 \in clock..(clock + 1) :
        /\ nextId <= limit
        /\ t2 <= MaxClock
        /\ LET user == NewUser(nextId, userData, clock, t2)
               serial == Len(created) + 1
           IN /\ users' = MapSet(users, user.id, user)
              /\ nextId' = nextId + 1
              /\ clock' = t2
              /\ created' = Append(created, [id |-> user.id, createdAt |-> user.createdAt])
              /\ owner' = [k \in (DOMAIN owner) \cup {user.id} |->
                              IF k = user.id THEN serial ELSE owner[k]]
              /\ alive' = alive \cup {serial}
              /\ last' = Result("createUser", user.id, userData, TRUE, <<user>>)
        /\ UNCHANGED <<limiterVars, serverVars>>

createUser == createUserWith(FieldMaps, MaxCreates)

\* static async getUserById(id)
getUserById ==
    \E id \in LookupIds :
        /\ last' = IF MapHas(users, id)
                   THEN Result("getUserById", id, NoData, TRUE, <<MapGet(users, id)>>)
                   ELSE Result("getUserById", id, NoData, TRUE, <<>>)
        /\ UNCHANGED <<storeVars, limiterVars, clock, serverVars>>

\* static async getAllUsers()
getAllUsers ==
    /\ last' = Result("getAllUsers", 0, NoData, TRUE, MapValues(users))
    /\ UNCHANGED <<storeVars, limiterVars, clock, serverVars>>

\* static async updateUser(id, userData)
updateUser ==
    \E id \in LookupIds, userData \in FieldMaps :
        IF UpdateThrows(users, id)
        THEN /\ last' = Result("updateUser", id, NoData, FALSE, <<>>)
             /\ UNCHANGED <<storeVars, limiterVars, clock, serverVars>>
        ELSE LET updatedUser == UpdatedUser(MapGet(users, id), userData, clock)
             IN /\ users' = MapSet(users, id, updatedUser)
                /\ last' = Result("updateUser", id, userData, TRUE, <<updatedUser>>)
                /\ UNCHANGED <<nextId, created, owner, alive, limiterVars, clock, serverVars>>

\* static async deleteUser(id)
deleteUser ==
    \E id \in LookupIds :
        IF DeleteThrows(users, id)
        THEN /\ last' = Result("deleteUser", id, NoData, FALSE, <<>>)
             /\ UNCHANGED <<storeVars, limiterVars, clock, serverVars>>
        ELSE /\ users' = MapDelete(users, id)
             /\ owner' = [k \in (DOMAIN owner) \ {id} |-> owner[k]]
             /\ alive' = {c \in alive : created[c].id # id}
             /\ last' = Result("deleteUser", id, NoData, TRUE, <<>>)
             /\ UNCHANGED <<nextId, created, limiterVars, clock, serverVars>>

Next ==
    \/ createUser
    \/ getUserById
    \/ getAllUsers
    \/ updateUser
    \/ deleteUser
    \/ Tick

Spec == Init /\ [][Next]_vars

\* The store with one more createUser call, a field map that is empty or
\* names the id of the first record, and no updateUser.
MaxOrderCreates == 3
EarlierIds == {1}
OrderBodies == {NoData} \cup {[id |-> i] : i \in EarlierIds}

createUserOrder == createUserWith(OrderBodies, MaxOrderCreates)

NextOrder ==
    \/ createUserOrder
    \/ getAllUsers
    \/ deleteUser
    \/ Tick

SpecOrder == Init /\ [][NextOrder]_vars

\* ------------------------------------------------------------ rateLimiter
ValidRequests_StaleRead(userRequests, windowStart) ==
    SelectSeq(SubSeq(userRequests, 1, Len(userRequests) - 1),
              LAMBDA time : time > windowStart)

ValidRequests_Late(userRequests, windowStart) ==
    SelectSeq(userRequests, LAMBDA time : time > windowStart + 1)

ValidRequests_NoExpiry(userRequests, windowStart) == userRequests

ValidRequests_Inclusive(userRequests, windowStart) ==
    SelectSeq(userRequests, LAMBDA time : time >= windowStart)

\* userRequests.filter(time => time > windowStart)
ValidRequests(userRequests, windowStart) ==
    SelectSeq(userRequests, LAMBDA time : time > windowStart)

TooMany_Never(validRequests, limit) == FALSE

TooMany_Off(validRequests, limit) == Len(validRequests) > limit

\* if (validRequests.length >= max)
TooMany(validRequests, limit) == Len(validRequests) >= limit

\* rateLimiter(windowMs, max): an empty requests map; the parameters are
\* the caller's.
InitLimiter ==
    /\ users = <<>>
    /\ nextId = 1
    /\ clock = StartClock
    /\ requests = <<>>
    /\ windowMs \in 0..MaxWindow
    /\ max \in 0..MaxMax
    /\ last = Result("init", 0, NoData, TRUE, <<>>)
    /\ created = <<>>
    /\ owner = <<>>
    /\ alive = {}
    /\ admitted = [k \in ClientKeys |-> <<>>]
    /\ pending = <<>>
    /\ draining = FALSE

\* The middleware rateLimiter returns: function(req, res, next)
rateLimit ==
    \E key \in ClientKeys :
        LET now == clock
            windowStart == now - windowMs
            present == IF MapHas(requests, key) THEN requests
                       ELSE MapSet(requests, key, <<>>)
            userRequests == MapGet(present, key)
            validRequests == ValidRequests(userRequests, windowStart)
        IN /\ IF TooMany(validRequests, max)
              THEN /\ requests' = present
                   /\ admitted' = admitted
                   /\ last' = Outcome("rateLimiter", 429, key, NoData, FALSE, <<>>,
                                      "Too many requests")
              ELSE /\ Len(admitted[key]) < MaxAdmits
                   /\ requests' = MapSet(present, key, Append(validRequests, now))
                   /\ admitted' = [admitted EXCEPT ![key] = Append(@, now)]
                   /\ last' = Outcome("rateLimiter", 0, key, NoData, TRUE, <<>>, "")
           /\ UNCHANGED <<windowMs, max, storeVars, clock, serverVars>>

LimiterTick == TickTo(LimiterMaxClock)

NextLimiter ==
    \/ rateLimit
    \/ LimiterTick

SpecLimiter == InitLimiter /\ [][NextLimiter]_vars

\* A limiter observed over a longer stretch of time: the clock starts at 0
\* and moves forward to any later one of these instants, and the window is
\* a short one or one second.
WindowInstants == {0, 100, 200, 1000, 1001}

InitWindow ==
    /\ users = <<>>
    /\ nextId = 1
    /\ clock = 0
    /\ requests = <<>>
    /\ windowMs \in (0..MaxWindow) \cup {MsPerSec}
    /\ max \in 0..MaxMax
    /\ last = Result("init", 0, NoData, TRUE, <<>>)
    /\ created = <<>>
    /\ owner = <<>>
    /\ alive = {}
    /\ admitted = [k \in ClientKeys |-> <<>>]
    /\ pending = <<>>
    /\ draining = FALSE

ClockJump ==
    \E t \in WindowInstants :
        /\ clock < t
        /\ clock' = t
        /\ last' = Result("tick", 0, NoData, TRUE, <<>>)
        /\ UNCHANGED <<storeVars, limiterVars, serverVars>>

NextWindow ==
    \/ rateLimit
    \/ ClockJump

SpecWindow == InitWindow /\ [][NextWindow]_vars

\* -------------------------------------------------------- ValidationUtils
\* JavaScript values as far as the validators see them: undefined, null,
\* strings (sequences of one-character strings) and booleans.
JsUndefined == [t |-> "undefined", v |-> <<>>]
JsNull == [t |-> "null", v |-> <<>>]
JsString(s) == [t |-> "string", v |-> s]
JsBoolean(b) == [t |-> "boolean", v |-> b]

\* ToBoolean
Truthy(x) ==
    IF x.t = "string" THEN x.v # <<>>
    ELSE IF x.t = "boolean" THEN x.v
    ELSE FALSE

\* a && b: a when a is falsy, else b.
AndAnd(a, b) == IF Truthy(a) THEN b ELSE a

\* ToString, which RegExp.prototype.test applies to its argument.
JsToString(x) ==
    IF x.t = "string" THEN x.v
    ELSE IF x.t = "undefined" THEN <<"u", "n", "d", "e", "f", "i", "n", "e", "d">>
    ELSE IF x.t = "null" THEN <<"n", "u", "l", "l">>
    ELSE IF x.v THEN <<"t", "r", "u", "e">>
    ELSE <<"f", "a", "l", "s", "e">>

\* The class \s, as far as the characters tried go.
Whitespace == {" "}

\* /^[^\s@]+@[^\s@]+\.[^\s@]+$/ : an @ at place i and a dot at place j split
\* the string into three non-empty runs of characters that are neither
\* whitespace nor @.
emailRegex(s) ==
    \E i, j \in 1..Len(s) :
        /\ 1 < i
        /\ i + 1 < j
        /\ j < Len(s)
        /\ s[i] = "@"
        /\ s[j] = "."
        /\ \A k \in (1..Len(s)) \ {i} : s[k] \notin Whitespace \cup {"@"}

validateEmail(email) == JsBoolean(emailRegex(JsToString(email)))

validateUsername(username) ==
    AndAnd(AndAnd(username, JsBoolean(Len(username.v) >= MinUsernameLength)),
           JsBoolean(Len(username.v) <= MaxUsernameLength))

validatePassword(password) ==
    AndAnd(password, JsBoolean(Len(password.v) >= MinPasswordLength))

\* The arguments the validators are tried with: undefined, null, and
\* strings; for a name or a password only the length of the string matters,
\* for an email address every string over EmailChars up to a length.
Repeat(c, n) == [i \in 1..n |-> c]
EmailChars == {"a", "@", ".", " "}
UsernameInputs ==
    {JsUndefined, JsNull} \cup {JsString(Repeat("a", n)) : n \in 0..MaxNameInput}
PasswordInputs ==
    {JsUndefined, JsNull} \cup {JsString(Repeat("a", n)) : n \in 0..MaxPasswordInput}
EmailInputs ==
    {JsUndefined, JsNull}
    \cup {JsString(s) : s \in UNION {[1..n -> EmailChars] : n \in 0..MaxEmailInput}}

ValidatorInputs == UsernameInputs \cup PasswordInputs \cup EmailInputs

\* The validators are pure: a behaviour is one argument, then one call.
InitValidation ==
    /\ users = <<>>
    /\ nextId = 1
    /\ clock = StartClock
    /\ requests = <<>>
    /\ windowMs = DefaultWindowMs
    /\ max = DefaultMax
    /\ last \in {Outcome("argument", 0, "", x, TRUE, <<>>, "") : x \in ValidatorInputs}
    /\ created = <<>>
    /\ owner = <<>>
    /\ alive = {}
    /\ admitted = [k \in ClientKeys |-> <<>>]
    /\ pending = <<>>
    /\ draining = FALSE

\* One call of a validator: data is the argument, ret the value returned.
ValidationUtils_validateEmail ==
    /\ last.op = "argument"
    /\ last' = Outcome("validateEmail", 0, "", last.data, TRUE,
                       <<validateEmail(last.data)>>, "")
    /\ UNCHANGED <<storeVars, limiterVars, clock, serverVars>>

ValidationUtils_validateUsername ==
    /\ last.op = "argument"
    /\ last' = Outcome("validateUsername", 0, "", last.data, TRUE,
                       <<validateUsername(last.data)>>, "")
    /\ UNCHANGED <<storeVars, limiterVars, clock, serverVars>>

ValidationUtils_validatePassword ==
    /\ last.op = "argument"
    /\ last' = Outcome("validatePassword", 0, "", last.data, TRUE,
                       <<validatePassword(last.data)>>, "")
    /\ UNCHANGED <<storeVars, limiterVars, clock, serverVars>>

NextValidation ==
    \/ ValidationUtils_validateEmail
    \/ ValidationUtils_validateUsername
    \/ ValidationUtils_validatePassword

SpecValidation == InitValidation /\ [][NextValidation]_vars

\* -------------------------------------------------------------- APIServer
\* Strings whose characters matter are sequences of one-character strings.
GoodEmail == <<"a", "@", "b", ".", "c">>
BadEmail == <<"a", "@", "b">>
GoodUsername == <<"b", "o", "b">>
BadUsername == <<"a", "l">>
GoodPassword == <<"p", "a", "s", "s", "w", "o", "r", "d">>
BadPassword == <<"p", "w">>

\* The values of req.body tried.
ServerBodies ==
    {NoData,
     [email |-> GoodEmail, username |-> GoodUsername, password |-> GoodPassword],
     [email |-> BadEmail],
     [username |-> BadUsername],
     [password |-> BadPassword]}

\* The values of parseInt(req.params.id) tried: the first id the counter
\* issues and the one after it.
ServerIds == {1, 2}

\* The value of req.ip tried; no middleware installed and no handler reads it.
ServerKeys == {"ip1"}

\* At most this many handlers are called in one turn of the event loop.
MaxInFlight == 2

\* What a request got: the Outcome of the handler plus the HTTP status of
\* the response; ret holds the JSON body of a success, err the error member
\* of the JSON body of a failure.
Response(op, id, key, data, status, ret, err) ==
    [op |-> op, id |-> id, key |-> key, data |-> data, ok |-> status < 400,
     ret |-> ret, err |-> err, status |-> status]

\* A handler was called: the route, parseInt(req.params.id), req.ip and
\* req.body it was called with.  No response has been sent at this point.
Dispatch(route, id, key, data) ==
    [op |-> "dispatch", id |-> id, key |-> key, data |-> data, ok |-> TRUE,
     ret |-> <<>>, err |-> "", status |-> 0, route |-> route]

\* setupMiddleware installs cors, helmet and the two body parsers; none of
\* them reads or writes the store or a limiter, so a request goes from the
\* socket to its route handler.  An async handler runs in two steps.  When
\* it is called it runs up to its await, the UserService call included (the
\* call has no await inside and so is complete when it returns); this is
\* the action named after the handler.  The rest of the handler, which
\* sends the response, is a continuation that runs once the synchronous
\* part of the turn is over, after the continuations queued before it; this
\* is the action Respond.  Handlers called in the same turn run their store
\* calls before any of their responses is sent.  The response is computed
\* from what the store call returned or threw, so it is fixed at the call
\* and is what pending holds.
CanDispatch == ~draining /\ Len(pending) < MaxInFlight

\* healthCheck(req, res): not async, it responds at once.
APIServer_healthCheck ==
    \E key \in ServerKeys :
        /\ ~draining
        /\ last' = Response("GET /health", 0, key, NoData, 200,
                            <<[status |-> "OK", timestamp |-> toISOString(clock)]>>, "")
        /\ UNCHANGED <<storeVars, limiterVars, serverVars, clock>>

\* async getUsers(req, res), up to the await
APIServer_getUsers ==
    \E key \in ServerKeys :
        /\ CanDispatch
        /\ pending' = Append(pending, Response("GET /api/users", 0, key, NoData, 200,
                                              MapValues(users), ""))
        /\ last' = Dispatch("GET /api/users", 0, key, NoData)
        /\ UNCHANGED <<storeVars, limiterVars, draining, clock>>

\* async createUser(req, res), up to the await
APIServer_createUser ==
    \E key \in ServerKeys, userData \in ServerBodies, t2 \in clock..(clock + 1) :
        /\ CanDispatch
        /\ nextId <= MaxCreates
        /\ t2 <= MaxClock
        /\ LET user == NewUser(nextId, userData, clock, t2)
               serial == Len(created) + 1
           IN /\ users' = MapSet(users, user.id, user)
              /\ nextId' = nextId + 1
              /\ clock' = t2
              /\ created' = Append(created, [id |-> user.id, createdAt |-> user.createdAt])
              /\ owner' = [k \in (DOMAIN owner) \cup {user.id} |->
                              IF k = user.id THEN serial ELSE owner[k]]
              /\ alive' = alive \cup {serial}
              /\ pending' = Append(pending, Response("POST /api/users", user.id, key,
                                                    userData, 201, <<user>>, ""))
              /\ last' = Dispatch("POST /api/users", 0, key, userData)
        /\ UNCHANGED <<limiterVars, draining>>

\* async getUserById(req, res), up to the await; `if (!user)` is decided by
\* the value the call returned.
APIServer_getUserById ==
    \E key \in ServerKeys, userId \in ServerIds :
        /\ CanDispatch
        /\ pending' = Append(pending,
               IF MapHas(users, userId)
               THEN Response("GET /api/users/:id", userId, key, NoData, 200,
                             <<MapGet(users, userId)>>, "")
               ELSE Response("GET /api/users/:id", userId, key, NoData, 404,
                             <<>>, "User not found"))
        /\ last' = Dispatch("GET /api/users/:id", userId, key, NoData)
        /\ UNCHANGED <<storeVars, limiterVars, draining, clock>>

\* async updateUser(req, res), up to the await
APIServer_updateUser ==
    \E key \in ServerKeys, userId \in ServerIds, userData \in ServerBodies :
        /\ CanDispatch
        /\ last' = Dispatch("PUT /api/users/:id", userId, key, userData)
        /\ IF UpdateThrows(users, userId)
           THEN /\ pending' = Append(pending, Response("PUT /api/users/:id", userId, key,
                                                      userData, 400, <<>>, "User not found"))
                /\ UNCHANGED <<storeVars, limiterVars, draining, clock>>
           ELSE LET updatedUser == UpdatedUser(MapGet(users, userId), userData, clock)
                IN /\ users' = MapSet(users, userId, updatedUser)
                   /\ pending' = Append(pending, Response("PUT /api/users/:id", userId, key,
                                                         userData, 200, <<updatedUser>>, ""))
                   /\ UNCHANGED <<nextId, created, owner, alive, limiterVars, draining,
                                  clock>>

\* async deleteUser(req, res), up to the await
APIServer_deleteUser ==
    \E key \in ServerKeys, userId \in ServerIds :
        /\ CanDispatch
        /\ last' = Dispatch("DELETE /api/users/:id", userId, key, NoData)
        /\ IF DeleteThrows(users, userId)
           THEN /\ pending' = Append(pending, Response("DELETE /api/users/:id", userId, key,
                                                      NoData, 500, <<>>, "User not found"))
                /\ UNCHANGED <<storeVars, limiterVars, draining, clock>>
           ELSE /\ users' = MapDelete(users, userId)
                /\ owner' = [k \in (DOMAIN owner) \ {userId} |-> owner[k]]
                /\ alive' = {c \in alive : created[c].id # userId}
                /\ pending' = Append(pending, Response("DELETE /api/users/:id", userId, key,
                                                      NoData, 204, <<>>, ""))
                /\ UNCHANGED <<nextId, created, limiterVars, draining, clock>>

\* The continuation of the async handler suspended longest: the statements
\* after its await, or its catch block, send the response.
Respond ==
    /\ pending # <<>>
    /\ last' = Head(pending)
    /\ pending' = Tail(pending)
    /\ draining' = (Tail(pending) # <<>>)
    /\ UNCHANGED <<storeVars, limiterVars, clock>>

NextServer ==
    \/ APIServer_healthCheck
    \/ APIServer_getUsers
    \/ APIServer_createUser
    \/ APIServer_getUserById
    \/ APIServer_updateUser
    \/ APIServer_deleteUser
    \/ Respond
    \/ Tick

SpecServer == Init /\ [][NextServer]_vars

\* ------------------------------------------------------------------ claims
\* The record the store holds under key k, and the stamp createUser gave it.
Stored(k) == MapGet(users, k)
BornAt(k) == created[owner[k]].createdAt
UpdateDone == last.op = "updateUser" /\ last.ok

\* C1: the ids returned by successive createUser calls are distinct
\* consecutive integers in call order, deletes in between or not.
C1_ConsecutiveIds ==
    \A i \in 1..Len(created) :
        /\ i > 1 => created[i].id = created[i - 1].id + 1
        /\ \A j \in 1..Len(created) : i # j => created[i].id # created[j].id

\* C2: stored records have pairwise different ids, nextId is above every id
\* createUser returned, and no id is returned by two createUser calls.
C2_UniqueIdsBelowCounter ==
    /\ \A i, j \in 1..Len(users) : i # j => users[i].val.id # users[j].val.id
    /\ \A c \in 1..Len(created) : created[c].id < nextId
    /\ \A c, d \in 1..Len(created) : c # d => created[c].id # created[d].id

\* C3: the record of a createUser call is in the store exactly when no later
\* deleteUser of its id succeeded; no other call removes or replaces it.
C3_PresentIffCreatedNotDeleted ==
    \A c \in 1..Len(created) :
        c \in alive <=>
            /\ MapHas(users, created[c].id)
            /\ owner[created[c].id] = c

\* C4: every stored record's id attribute equals the key it is stored under.
C4_IdEqualsKey ==
    \A i \in 1..Len(users) : users[i].val.id = users[i].key

\* C5: a stored record's createdAt is the value createUser stamped on it.
C5_CreatedAtFixed ==
    \A k \in MapKeys(users) : Stored(k).createdAt = BornAt(k)

\* C6: a successful updateUser sets updatedAt to the current time whatever
\* the field map supplies, and no step moves a record's updatedAt back.
C6_UpdatedAtMonotone ==
    [][/\ (last'.op = "updateUser" /\ last'.ok) =>
              /\ MapGet(users', last'.id).updatedAt = toISOString(clock')
              /\ last'.ret[1].updatedAt = toISOString(clock')
       /\ \A k \in MapKeys(users) \cap MapKeys(users') :
              owner'[k] = owner[k] =>
                  IsoLeq(MapGet(users, k).updatedAt, MapGet(users', k).updatedAt)
      ]_vars

C6_Witness ==
    /\ UpdateDone
    /\ "updatedAt" \in DOMAIN last.data
    /\ IsoLess(BornAt(last.id), Stored(last.id).updatedAt)

\* C7 as stated: after a successful updateUser every key of the field map has
\* the supplied value in the returned and stored record, every other caller
\* attribute keeps its value, and no other record changes.
CallerKeys(rec) == (DOMAIN rec) \ {"id", "createdAt", "updatedAt"}

C7_MergeAllKeys ==
    [][(last'.op = "updateUser" /\ last'.ok) =>
          LET old == MapGet(users, last'.id)
              new == MapGet(users', last'.id)
          IN /\ last'.ret = <<new>>
             /\ \A f \in DOMAIN last'.data : new[f] = last'.data[f]
             /\ \A f \in CallerKeys(old) \ DOMAIN last'.data : new[f] = old[f]
             /\ \A i \in 1..Len(users) :
                    users[i].key # last'.id => users'[i] = users[i]
      ]_vars

\* C7 amended: every supplied key other than updatedAt has the supplied value,
\* updatedAt is the current time, every other attribute keeps its value, the
\* record has no further attribute, and no other record changes.
C7_MergeExceptUpdatedAt ==
    [][(last'.op = "updateUser" /\ last'.ok) =>
          LET old == MapGet(users, last'.id)
              new == MapGet(users', last'.id)
          IN /\ last'.ret = <<new>>
             /\ DOMAIN new = (DOMAIN old) \cup (DOMAIN last'.data) \cup {"updatedAt"}
             /\ \A f \in (DOMAIN last'.data) \ {"updatedAt"} : new[f] = last'.data[f]
             /\ new.updatedAt = toISOString(clock')
             /\ \A f \in (DOMAIN old) \ ((DOMAIN last'.data) \cup {"updatedAt"}) :
                    new[f] = old[f]
             /\ Len(users') = Len(users)
             /\ \A i \in 1..Len(users) :
                    users[i].key # last'.id => users'[i] = users[i]
      ]_vars

C7_Witness ==
    /\ UpdateDone
    /\ last.data = [email |-> "y"]
    /\ Len(users) = 2
    /\ \E k \in MapKeys(users) : k # last.id /\ "email" \in DOMAIN Stored(k)
                                          /\ Stored(k).email = "x"

\* C8 as stated: after a successful updateUser the record's updatedAt is
\* strictly later than its createdAt, and createdAt is the creation stamp.
C8_StrictlyLater ==
    UpdateDone =>
        /\ IsoLess(Stored(last.id).createdAt, Stored(last.id).updatedAt)
        /\ Stored(last.id).createdAt = BornAt(last.id)

\* C8 amended: after a successful updateUser the record's updatedAt is not
\* earlier than the createdAt that createUser stamped on it.
C8_NotEarlier ==
    UpdateDone => IsoLeq(BornAt(last.id), Stored(last.id).updatedAt)

C8_Witness ==
    /\ UpdateDone
    /\ BornAt(last.id) = toISOString(StartClock)
    /\ Stored(last.id).updatedAt = toISOString(StartClock + 1)

\* C9: getUserById on an id absent from the store returns no record;
\* updateUser and deleteUser on an absent id throw 'User not found'.
C9_NotFound ==
    [][/\ (last'.op = "getUserById" /\ ~MapHas(users, last'.id)) =>
              last'.ret = <<>>
       /\ (last'.op \in {"updateUser", "deleteUser"} /\ ~MapHas(users, last'.id)) =>
              (~last'.ok /\ last'.err = "User not found")
      ]_vars

C9_Witness ==
    /\ last.op = "updateUser"
    /\ ~last.ok
    /\ \E c \in 1..Len(created) : created[c].id = last.id /\ c \notin alive

\* C10: for every key and every instant t, at most max requests of the key
\* were admitted at instants in (t - windowMs, t].
AdmittedIn(key, t) ==
    {i \in 1..Len(admitted[key]) :
        admitted[key][i] > t - windowMs /\ admitted[key][i] <= t}

C10_RateBounded ==
    \A key \in ClientKeys : \A t \in StartClock..LimiterMaxClock :
        Cardinality(AdmittedIn(key, t)) <= max

C10_Witness ==
    /\ last.op = "rateLimiter"
    /\ ~last.ok
    /\ max > 0
    /\ Len(admitted[last.key]) > max
    /\ Cardinality(AdmittedIn(last.key, clock)) = max

\* The sequence the limiter holds for a key; a key it never saw has none.
StoredFor(m, key) == IF MapHas(m, key) THEN MapGet(m, key) ELSE <<>>
Evaluated == last.op = "rateLimiter"

\* C11 as stated: after every admission evaluation at time now, admit or
\* reject, the sequence stored for the key holds only instants strictly
\* greater than now - windowMs; after a reject it is the pruned sequence,
\* now not appended.
C11_WindowPruned ==
    [][last'.op = "rateLimiter" =>
          LET old == StoredFor(requests, last'.key)
              new == StoredFor(requests', last'.key)
          IN /\ \A i \in 1..Len(new) : new[i] > clock' - windowMs
             /\ ~last'.ok =>
                    new = SelectSeq(old, LAMBDA t : t > clock' - windowMs)
      ]_vars

\* C11 amended: the same for a window of positive length; with windowMs = 0
\* an admitted request's own instant is stored although it is not greater
\* than now - windowMs.  The reject part holds for every window.
C11_WindowPrunedPositive ==
    [][last'.op = "rateLimiter" =>
          LET old == StoredFor(requests, last'.key)
              new == StoredFor(requests', last'.key)
          IN /\ windowMs > 0 =>
                    \A i \in 1..Len(new) : new[i] > clock' - windowMs
             /\ ~last'.ok =>
                    new = SelectSeq(old, LAMBDA t : t > clock' - windowMs)
      ]_vars

C11_Witness ==
    /\ Evaluated
    /\ ~last.ok
    /\ windowMs > 0
    /\ StoredFor(requests, last.key) # <<>>
    /\ Len(StoredFor(requests, last.key)) < Len(admitted[last.key])

\* The admitted instants of a key that are inside the window ending at t.
InWindow(log, t) == SelectSeq(log, LAMBDA a : a > t - windowMs)

\* The worked case: a window of one second and at most two requests; the
\* requests at 0 and 100 are admitted, the one at 200 is rejected and leaves
\* the held sequence alone, the one at 1001 is admitted and the window then
\* holds exactly 100 and 1001.
ExampleHolds ==
    (last'.op = "rateLimiter" /\ windowMs = MsPerSec /\ max = 2) =>
        LET key == last'.key
            new == StoredFor(requests', key)
        IN /\ (clock' = 0 /\ admitted[key] = <<>>) =>
                  (last'.ok /\ new = <<0>>)
           /\ (clock' = 100 /\ admitted[key] = <<0>>) =>
                  (last'.ok /\ new = <<0, 100>>)
           /\ (clock' = 200 /\ admitted[key] = <<0, 100>>) =>
                  (~last'.ok /\ new = <<0, 100>>)
           /\ (clock' = 1001 /\ admitted[key] = <<0, 100>>) =>
                  (last'.ok /\ new = <<100, 1001>>)

\* C12 as stated: after any evaluation the sequence held for the key is
\* exactly the instants of the key's admitted requests still inside the
\* window, in admission order (a rejected attempt is not in it, an aged-out
\* one frees its place), and the worked case goes as told.
C12_OnlyAdmittedInWindow ==
    [][/\ last'.op = "rateLimiter" =>
              StoredFor(requests', last'.key) = InWindow(admitted'[last'.key], clock')
       /\ ExampleHolds
      ]_vars

\* C12 amended: the same for a window of positive length; with windowMs = 0
\* the held sequence is the instant just admitted, which is not inside the
\* window.
C12_OnlyAdmittedInWindowPositive ==
    [][/\ (last'.op = "rateLimiter" /\ windowMs > 0) =>
              StoredFor(requests', last'.key) = InWindow(admitted'[last'.key], clock')
       /\ ExampleHolds
      ]_vars

C12_Witness ==
    /\ Evaluated
    /\ last.ok
    /\ windowMs = MsPerSec
    /\ max = 2
    /\ clock = 1001
    /\ admitted[last.key] = <<0, 100, 1001>>
    /\ StoredFor(requests, last.key) = <<100, 1001>>

\* C13: expiry includes the boundary.  In an evaluation at time now a held
\* instant equal to now - windowMs is pruned and not counted, one equal to
\* now - windowMs + 1 is counted: the request is admitted exactly when fewer
\* than max held instants are at or after now - windowMs + 1, and those are
\* the instants kept.
C13_BoundaryExpires ==
    [][last'.op = "rateLimiter" =>
          LET old == StoredFor(requests, last'.key)
              new == StoredFor(requests', last'.key)
              counted == SelectSeq(old, LAMBDA t : t >= clock' - windowMs + 1)
          IN /\ last'.ok <=> Len(counted) < max
             /\ new = IF last'.ok THEN Append(counted, clock') ELSE counted
             /\ \A i \in 1..Len(new) :
                    new[i] = clock' - windowMs => (i = Len(new) /\ last'.ok)
      ]_vars

C13_Witness ==
    /\ Evaluated
    /\ last.ok
    /\ windowMs > 1
    /\ \E i \in 1..Len(admitted[last.key]) :
           admitted[last.key][i] = clock - windowMs
    /\ StoredFor(requests, last.key)[1] = clock - windowMs + 1
    /\ Len(StoredFor(requests, last.key)) = max

\* The routes of APIServer.
Routes ==
    {"GET /health", "GET /api/users", "POST /api/users", "GET /api/users/:id",
     "PUT /api/users/:id", "DELETE /api/users/:id"}

\* The step in which a request reaches its handler: the call of an async
\* handler, or healthCheck answering.
Handled(rec) == rec.op = "dispatch" \/ rec.op = "GET /health"

\* C14: every request to APIServer is first put to the admission check for
\* its client key: either the check admits it, and only then the handler
\* runs and calls the store, or it is answered 429 and the store and nextId
\* stay as they were.
C14_AdmissionBeforeStore ==
    [][/\ Handled(last') =>
              admitted'[last'.key] = Append(admitted[last'.key], clock)
       /\ users' # users \/ nextId' # nextId => Handled(last')
       /\ (last'.op \in Routes /\ last'.status = 429) => UNCHANGED <<users, nextId>>
      ]_vars

\* A body one of whose supplied email, username and password the matching
\* ValidationUtils predicate turns down.
FailsValidation(body) ==
    \/ "email" \in DOMAIN body /\ ~Truthy(validateEmail(JsString(body.email)))
    \/ "username" \in DOMAIN body /\ ~Truthy(validateUsername(JsString(body.username)))
    \/ "password" \in DOMAIN body /\ ~Truthy(validatePassword(JsString(body.password)))

\* C15: a create or update request whose supplied email, username or
\* password fails its ValidationUtils predicate is turned down before the
\* store is called: the handler leaves the store and nextId as they were
\* and the response it queues is a failure.
C15_InvalidNeverStored ==
    [][(/\ last'.op = "dispatch"
        /\ last'.route \in {"POST /api/users", "PUT /api/users/:id"}
        /\ FailsValidation(last'.data)) =>
          /\ UNCHANGED <<users, nextId>>
          /\ ~pending'[Len(pending')].ok
      ]_vars

\* C16: a get, update or delete request for an id that is absent from the
\* store when the handler calls it is answered with status 404.
C16_NotFoundIs404 ==
    [][(/\ last'.op = "dispatch"
        /\ last'.route \in {"GET /api/users/:id", "PUT /api/users/:id",
                           "DELETE /api/users/:id"}
        /\ ~MapHas(users, last'.id)) =>
          pending'[Len(pending')].status = 404
      ]_vars

\* C17: concurrently invoked store calls run one after the other in some
\* order (a call has no await inside, so each step of Spec is one whole
\* call and the behaviours of Spec are the interleavings).  Under each of
\* them no two createUser calls get the same id, nextId is one more than
\* the number of createUser calls, and of two successful updateUser calls
\* on one record, back to back, with disjoint field sets, the stored record
\* has the fields of both.
C17_AsIfSerialized ==
    [][/\ \A c, d \in 1..Len(created') : c # d => created'[c].id # created'[d].id
       /\ nextId' = Len(created') + 1
       /\ (/\ UpdateDone
           /\ last'.op = "updateUser"
           /\ last'.ok
           /\ last'.id = last.id
           /\ (DOMAIN last.data) \cap (DOMAIN last'.data) = {}) =>
              LET final == MapGet(users', last'.id)
              IN /\ \A f \in DOMAIN last.data : final[f] = last.data[f]
                 /\ \A f \in DOMAIN last'.data : final[f] = last'.data[f]
      ]_vars

\* C18: evaluations for one key run one after the other in some order (the
\* middleware has no await inside, so each step of SpecLimiter is one whole
\* evaluation, several of them at one instant included).  Each evaluation
\* counts every admission made before it, those of the same instant too: it
\* admits exactly when fewer than max of the key's admitted instants are
\* inside the window, so the admitted instants inside it never exceed max.
C18_EvaluationsSerialized ==
    [][last'.op = "rateLimiter" =>
          LET key == last'.key
          IN /\ last'.ok <=> Len(InWindow(admitted[key], clock')) < max
             /\ \A t \in StartClock..LimiterMaxClock :
                    Cardinality({i \in 1..Len(admitted'[key]) :
                                    /\ admitted'[key][i] > t - windowMs
                                    /\ admitted'[key][i] <= t}) <= max
      ]_vars

C18_Witness ==
    /\ Evaluated
    /\ ~last.ok
    /\ windowMs > 0
    /\ max > 1
    /\ Len(admitted[last.key]) = max
    /\ \A i \in 1..Len(admitted[last.key]) : admitted[last.key][i] = clock

\* The current records, earliest createUser call first.
ByCreation ==
    LET keys == MapKeys(users)
        rank(k) == Cardinality({j \in keys : owner[j] <= owner[k]})
    IN [i \in 1..Cardinality(keys) |-> Stored(CHOOSE k \in keys : rank(k) = i)]

\* C19: getAllUsers returns all current records in the order they were
\* created, changes neither the store nor nextId, and returns the same
\* sequence when called again with no call in between.
C19_ListInCreationOrder ==
    [][last'.op = "getAllUsers" =>
          /\ last'.ret = ByCreation
          /\ UNCHANGED <<users, nextId>>
          /\ last.op = "getAllUsers" => last'.ret = last.ret
      ]_vars

\* C20: validateUsername returns the boolean true when its argument is a
\* string of 3 to 50 characters and the boolean false for every other
\* argument: undefined, null, the empty string, 2 or 51 characters.
C20_UsernameBoolean ==
    last.op = "validateUsername" =>
        last.ret = <<JsBoolean(/\ last.data.t = "string"
                               /\ Len(last.data.v) >= 3
                               /\ Len(last.data.v) <= 50)>>

\* C21: the record createUser returns has createdAt equal to updatedAt, and
\* both are the time of the call, whatever createdAt or updatedAt the field
\* map supplies.
C21_SingleStamp ==
    [][last'.op = "createUser" =>
          /\ last'.ret[1].createdAt = last'.ret[1].updatedAt
          /\ last'.ret[1].createdAt = toISOString(clock)
      ]_vars

\* C22: an updateUser or deleteUser that fails does so because the id is
\* absent, and leaves the store as it was: the same records under the same
\* keys in the same order, every attribute the same, and the same nextId.
C22_FailureChangesNothing ==
    [][(last'.op \in {"updateUser", "deleteUser"} /\ ~last'.ok) =>
          /\ ~MapHas(users, last'.id)
          /\ users' = users
          /\ nextId' = nextId
      ]_vars

C22_Witness ==
    /\ last.op = "deleteUser"
    /\ ~last.ok
    /\ Len(users) = 2
    /\ last.id = nextId

\* C23: the limiter's state is kept per client key.  An evaluation for one
\* key leaves the sequence held for every other key as it was, and its
\* verdict is decided by that key's own admitted instants, windowMs, max
\* and now: whatever the other keys did, it admits exactly when fewer than
\* max of the key's own admitted instants are inside the window.
C23_PartitionedPerKey ==
    [][last'.op = "rateLimiter" =>
          /\ \A other \in ClientKeys \ {last'.key} :
                 /\ MapHas(requests', other) <=> MapHas(requests, other)
                 /\ StoredFor(requests', other) = StoredFor(requests, other)
                 /\ admitted'[other] = admitted[other]
          /\ last'.ok <=>
                 Cardinality({i \in 1..Len(admitted[last'.key]) :
                                 admitted[last'.key][i] > clock' - windowMs}) < max
      ]_vars

C23_Witness ==
    /\ Evaluated
    /\ last.ok
    /\ max = 1
    /\ \E other \in ClientKeys \ {last.key} :
           /\ StoredFor(requests, other) = <<clock>>
           /\ StoredFor(requests, last.key) = <<clock>>

\* C24: the sequence held for each key is never longer than max and is in
\* non-decreasing order, and a request is rejected only when every instant
\* held for its key is still inside the window.
C24_BoundedAndOrdered ==
    [][/\ \A key \in MapKeys(requests') :
              LET held == MapGet(requests', key)
              IN /\ Len(held) <= max
                 /\ \A i, j \in 1..Len(held) : i < j => held[i] <= held[j]
       /\ (last'.op = "rateLimiter" /\ ~last'.ok) =>
              LET before == StoredFor(requests, last'.key)
              IN \A i \in 1..Len(before) : before[i] > clock' - windowMs
      ]_vars

C24_Witness ==
    /\ Evaluated
    /\ ~last.ok
    /\ max = 2
    /\ LET held == StoredFor(requests, last.key)
       IN Len(held) = 2 /\ held[1] < held[2]
    /\ Len(admitted[last.key]) = 3
====
